---------------------------- MODULE Spec2Model ----------------------------
(***************************************************************************)
(* Model of app/core/task_manager.py (TaskManager, Task) and of the way     *)
(* app/api/routes.py and main.py drive it.                                  *)
(*                                                                          *)
(* Task objects live in `obj` (the heap: run_task keeps its reference to a  *)
(* Task even after the store dropped it); the store `tasks` is the dict of  *)
(* TaskManager, kept as the sequence of its keys in insertion order.  A     *)
(* task id is the index of its object in `obj`: uuid4 ids are never reused. *)
(* An optional value is a set: {} is None, {n} is the value n.  The        *)
(* clock `now` counts hours and advances by TickHours, so that a record    *)
(* outlives the retention window within MaxTime.  asyncio runs the code    *)
(* between two awaits without interruption: each action is one such        *)
(* stretch.                                                                 *)
(***************************************************************************)
EXTENDS Integers, Sequences, FiniteSets

\* ---- bounds of the model
MaxTasks == 3            \* task objects ever created
MaxTime == 2             \* the clock stops advancing here
TickHours == 2           \* hours between two readings of the clock

\* ---- configuration (app/core/config.py, InferenceConfig): values the
\* fields admit, small enough to fill every slot and overfill the store
MaxConcurrentTasks == 1  \* max_concurrent_tasks (gt=0)
MaxTasksCount == 1       \* max_tasks_count (gt=0)
RetentionHours == 1      \* task_retention_hours when retention is enabled
TimeoutSeconds == 1      \* timeout_seconds (gt=0), shorter than the work
WorkSeconds == 2         \* asyncio.sleep(2), the work of run_task

VARIABLES
    obj,                  \* Seq of Task objects, obj[id]
    tasks,                \* TaskManager.tasks: ids in insertion order
    pc,                   \* position of run_task(id), per id
    sem_value,            \* TaskManager.semaphore._value
    sem_waiters,          \* TaskManager.semaphore._waiters (FIFO)
    completed_count,      \* TaskManager._completed_count
    failed_count,         \* TaskManager._failed_count
    task_retention_hours, \* config.inference.task_retention_hours
    now,                  \* datetime.now()
    ret                   \* what the last get_task or cancel_task gave its
                          \* caller: "ok" (a Task, a normal return; also
                          \* before any call), "None" or "ValueError"

vars == <<obj, tasks, pc, sem_value, sem_waiters, completed_count,
          failed_count, task_retention_hours, now, ret>>

TaskIds == 1..MaxTasks
\* ids a caller may pass: every id that can exist, and one that never does
AnyIds == 0..MaxTasks

None == {}
Terminal == {"completed", "failed", "cancelled"}

Range(s) == {s[i] : i \in 1..Len(s)}

\* Task.__init__
NewTask(t) ==
    [status |-> "pending", result |-> None, error |-> None,
     created_at |-> t, updated_at |-> t, started_at |-> None,
     completed_at |-> None, progress |-> 0]

\* ------------------------------------------------------------------------
\* cleanup_expired_tasks

\* an expiry that ages a record from its creation
IsExpiredByCreation(o, retention_limit) ==
    /\ o.status \in Terminal
    /\ o.created_at < retention_limit

\* line 88-89: terminal status, completed_at truthy and before the limit
IsExpired(o, retention_limit) ==
    /\ o.status \in Terminal
    /\ \E c \in o.completed_at : c < retention_limit

\* lines 83-94: the store without the expired records
ExpiredIds(store) ==
    {id \in Range(store) : IsExpired(obj[id], now - task_retention_hours)}

AfterExpiry(store) ==
    SelectSeq(store, LAMBDA id : id \notin ExpiredIds(store))

\* sorted(..., key=created_at): a stable insertion sort
RECURSIVE InsertByCreatedAt(_, _)
InsertByCreatedAt(s, id) ==
    IF s = <<>> THEN <<id>>
    ELSE IF obj[Head(s)].created_at <= obj[id].created_at
         THEN <<Head(s)>> \o InsertByCreatedAt(Tail(s), id)
         ELSE <<id>> \o s

RECURSIVE SortByCreatedAt(_)
SortByCreatedAt(s) ==
    IF s = <<>> THEN <<>>
    ELSE InsertByCreatedAt(SortByCreatedAt(SubSeq(s, 1, Len(s) - 1)), s[Len(s)])

\* a sort over every record of the store, terminal or not
SortedAllTasks(store) == SortByCreatedAt(store)

\* lines 103-107
SortedTasks(store) ==
    SortByCreatedAt(SelectSeq(store, LAMBDA id : obj[id].status \in Terminal))

\* a count that keeps max_tasks_count terminal records
ToRemoveTerminalOnly(store) ==
    Len(SelectSeq(store, LAMBDA id : obj[id].status \in Terminal))
        - MaxTasksCount

\* line 110
ToRemove(store) == Len(store) - MaxTasksCount

\* a slice from the other end, sorted_tasks[-to_remove:]
Suffix(s, n) == SubSeq(s, IF n < Len(s) THEN Len(s) - n + 1 ELSE 1, Len(s))

\* sorted_tasks[:to_remove]
Prefix(s, n) == SubSeq(s, 1, IF n < Len(s) THEN n ELSE Len(s))

\* lines 100-114
TrimmedIds(store) ==
    IF Len(store) > MaxTasksCount
    THEN Range(Prefix(SortedTasks(store), ToRemove(store)))
    ELSE {}

AfterTrim(store) ==
    SelectSeq(store, LAMBDA id : id \notin TrimmedIds(store))

\* a sweep without the early return of lines 80-81
CleanedAlways(store) == AfterTrim(AfterExpiry(store))

\* the store after cleanup_expired_tasks, lines 79-116
Cleaned(store) ==
    IF task_retention_hours <= 0 THEN store
    ELSE AfterTrim(AfterExpiry(store))

\* its return value
CleanedCount(store) ==
    IF task_retention_hours <= 0 THEN 0
    ELSE Cardinality(ExpiredIds(store))

\* _periodic_cleanup, and the last sweep of shutdown_event
cleanup_expired_tasks ==
    /\ tasks' = Cleaned(tasks)
    /\ UNCHANGED <<obj, pc, sem_value, sem_waiters, completed_count,
                   failed_count, task_retention_hours, now, ret>>

\* ------------------------------------------------------------------------
\* create_task, get_task, cancel_task

\* a create_task that waits for a free slot of the semaphore
create_task_gated ==
    /\ Len(obj) < MaxTasks
    /\ sem_value > 0
    /\ LET id == Len(obj) + 1 IN
         /\ obj' = Append(obj, NewTask(now))
         /\ tasks' = Append(Cleaned(tasks), id)
         /\ pc' = [pc EXCEPT ![id] = "created"]
    /\ UNCHANGED <<sem_value, sem_waiters, completed_count, failed_count,
                   task_retention_hours, now, ret>>

create_task ==
    /\ Len(obj) < MaxTasks
    /\ LET id == Len(obj) + 1 IN
         /\ obj' = Append(obj, NewTask(now))
         /\ tasks' = Append(Cleaned(tasks), id)
         /\ pc' = [pc EXCEPT ![id] = "created"]
    /\ UNCHANGED <<sem_value, sem_waiters, completed_count, failed_count,
                   task_retention_hours, now, ret>>

\* a lookup that still finds the records the store dropped
LookupStale(id) == IF id \in 1..Len(obj) THEN {id} ELSE None

\* self.tasks.get(task_id)
Lookup(id) == IF id \in Range(tasks) THEN {id} ELSE None

get_task(id) ==
    /\ ret' = IF Lookup(id) = None THEN "None" ELSE "ok"
    /\ UNCHANGED <<obj, tasks, pc, sem_value, sem_waiters, completed_count,
                   failed_count, task_retention_hours, now>>

\* lines 219-220
Cancelled(o) == [o EXCEPT !.status = "cancelled", !.updated_at = now]

cancel_task(id) ==
    /\ IF Lookup(id) = None
       THEN /\ ret' = "ValueError"
            /\ obj' = obj
       ELSE /\ ret' = "ok"
            /\ obj' = [obj EXCEPT ![id] = Cancelled(obj[id])]
    /\ UNCHANGED <<tasks, pc, sem_value, sem_waiters, completed_count,
                   failed_count, task_retention_hours, now>>

\* ------------------------------------------------------------------------
\* run_task

\* a locked() that looks at the waiters alone
LockedIgnoresValue == sem_waiters # <<>>

\* asyncio.Semaphore.locked()
Locked == sem_value = 0 \/ sem_waiters # <<>>

\* a start that stamps started_at and leaves the status for the slot holder
StartedKeepsStatus(o) ==
    [o EXCEPT !.started_at = {now}, !.updated_at = now]

\* lines 152-154
Started(o) ==
    [o EXCEPT !.status = "running", !.started_at = {now}, !.updated_at = now]

\* lines 152-156: up to the first suspension
run_task_start(id) ==
    /\ pc[id] = "created"
    /\ obj' = [obj EXCEPT ![id] = Started(obj[id])]
    /\ IF Locked
       THEN /\ sem_waiters' = Append(sem_waiters, id)
            /\ sem_value' = sem_value
            /\ pc' = [pc EXCEPT ![id] = "waiting"]
       ELSE /\ sem_value' = sem_value - 1
            /\ sem_waiters' = sem_waiters
            /\ pc' = [pc EXCEPT ![id] = "working"]
    /\ UNCHANGED <<tasks, completed_count, failed_count,
                   task_retention_hours, now, ret>>

\* the guard of a woken waiter of Semaphore.acquire
CanAcquire(id) ==
    /\ sem_waiters # <<>>
    /\ Head(sem_waiters) = id
    /\ sem_value > 0

\* line 156, the woken waiter takes the slot
run_task_acquire(id) ==
    /\ pc[id] = "waiting"
    /\ CanAcquire(id)
    /\ sem_value' = sem_value - 1
    /\ sem_waiters' = Tail(sem_waiters)
    /\ pc' = [pc EXCEPT ![id] = "working"]
    /\ UNCHANGED <<obj, tasks, completed_count, failed_count,
                   task_retention_hours, now, ret>>

\* lines 163-167, then 175-176
Completed(o) ==
    [o EXCEPT !.result = {<<"output", "Processed input">>},
              !.status = "completed", !.progress = 1,
              !.completed_at = {now}, !.updated_at = now]

\* str(e) of the exceptions the work may raise: Exception("boom"), and
\* Exception() or asyncio.TimeoutError(), whose str is empty
ErrorMessages == {"boom", ""}

\* lines 170-172, then 175-176; msg is str(e)
Failed(o, msg) ==
    [o EXCEPT !.error = {msg}, !.status = "failed",
              !.result = {<<"error", msg>>},
              !.completed_at = {now}, !.updated_at = now]

\* an exit that keeps the slot
ReleasedNever(v) == v

\* Semaphore.release() of __aexit__
Released(v) == v + 1

\* lines 160-168 and 174-176: the work returns
run_task_completes(id) ==
    /\ pc[id] = "working"
    /\ obj' = [obj EXCEPT ![id] = Completed(obj[id])]
    /\ completed_count' = completed_count + 1
    /\ sem_value' = Released(sem_value)
    /\ pc' = [pc EXCEPT ![id] = "done"]
    /\ UNCHANGED <<tasks, sem_waiters, failed_count, task_retention_hours,
                   now, ret>>

\* lines 169-176: the work raises an Exception
run_task_fails(id) ==
    /\ pc[id] = "working"
    /\ \E msg \in ErrorMessages :
           obj' = [obj EXCEPT ![id] = Failed(obj[id], msg)]
    /\ failed_count' = failed_count + 1
    /\ sem_value' = Released(sem_value)
    /\ pc' = [pc EXCEPT ![id] = "done"]
    /\ UNCHANGED <<tasks, sem_waiters, completed_count,
                   task_retention_hours, now, ret>>

\* line 156: Semaphore.acquire drops the future of a cancelled waiter
WithoutWaiter(q, id) == SelectSeq(q, LAMBDA w : w # id)

\* lines 174-176: the finally block
Finalized(o) == [o EXCEPT !.completed_at = {now}, !.updated_at = now]

\* the asyncio task that runs run_task is cancelled: CancelledError is raised
\* at the await the coroutine is suspended in. It is not an Exception, so
\* "except Exception" (line 169) lets it through. Raised in the acquire of
\* line 156 it leaves run_task before the try statement; raised in the work
\* it runs the finally block and the exit of "async with".
run_task_cancelled(id) ==
    /\ pc[id] \in {"waiting", "working"}
    /\ IF pc[id] = "waiting"
       THEN /\ sem_waiters' = WithoutWaiter(sem_waiters, id)
            /\ UNCHANGED <<obj, sem_value>>
       ELSE /\ obj' = [obj EXCEPT ![id] = Finalized(obj[id])]
            /\ sem_value' = Released(sem_value)
            /\ UNCHANGED sem_waiters
    /\ pc' = [pc EXCEPT ![id] = "aborted"]
    /\ UNCHANGED <<tasks, completed_count, failed_count,
                   task_retention_hours, now, ret>>

\* ------------------------------------------------------------------------
\* get_metrics

\* counters read off the statuses of the store
StoreCounts ==
    [task_count |-> Len(tasks),
     running_tasks |->
         Cardinality({id \in Range(tasks) : obj[id].status = "running"}),
     pending_tasks |->
         Cardinality({id \in Range(tasks) : obj[id].status = "pending"}),
     completed_tasks |->
         Cardinality({id \in Range(tasks) : obj[id].status = "completed"}),
     failed_tasks |->
         Cardinality({id \in Range(tasks) : obj[id].status = "failed"})]

\* lines 228-235 (uptime left out)
get_metrics ==
    [task_count |-> Len(tasks),
     running_tasks |->
         Cardinality({id \in Range(tasks) : obj[id].status = "running"}),
     pending_tasks |->
         Cardinality({id \in Range(tasks) : obj[id].status = "pending"}),
     completed_tasks |-> completed_count,
     failed_tasks |-> failed_count]

\* the clock
Tick ==
    /\ now + TickHours <= MaxTime
    /\ now' = now + TickHours
    /\ UNCHANGED <<obj, tasks, pc, sem_value, sem_waiters, completed_count,
                   failed_count, task_retention_hours, ret>>

\* ------------------------------------------------------------------------
\* TaskManager.__init__ with the configuration read by get_config()
Init ==
    /\ obj = <<>>
    /\ tasks = <<>>
    /\ pc = [id \in TaskIds |-> "none"]
    /\ sem_value = MaxConcurrentTasks
    /\ sem_waiters = <<>>
    /\ completed_count = 0
    /\ failed_count = 0
    /\ task_retention_hours = RetentionHours
    /\ now = 0
    /\ ret = "ok"

Next ==
    \/ create_task
    \/ cleanup_expired_tasks
    \/ Tick
    \/ \E id \in AnyIds : get_task(id)
    \/ \E id \in AnyIds : cancel_task(id)
    \/ \E id \in TaskIds : run_task_start(id)
    \/ \E id \in TaskIds : run_task_acquire(id)
    \/ \E id \in TaskIds : run_task_completes(id)
    \/ \E id \in TaskIds : run_task_fails(id)

Spec == Init /\ [][Next]_vars

\* TaskManager.__init__ with task_retention_hours: 0 (retention disabled)
InitDisabled ==
    /\ obj = <<>>
    /\ tasks = <<>>
    /\ pc = [id \in TaskIds |-> "none"]
    /\ sem_value = MaxConcurrentTasks
    /\ sem_waiters = <<>>
    /\ completed_count = 0
    /\ failed_count = 0
    /\ task_retention_hours = 0
    /\ now = 0
    /\ ret = "ok"

SpecDisabled == InitDisabled /\ [][Next]_vars

\* the program, with the cancellation of the asyncio tasks that run run_task
NextCancel ==
    \/ Next
    \/ \E id \in TaskIds : run_task_cancelled(id)

SpecCancel == Init /\ [][NextCancel]_vars

\* the event loop runs the coroutines that are ready: a woken waiter takes
\* its slot, and the work (asyncio.sleep(2)) of a slot holder ends
Fairness ==
    /\ WF_vars(\E id \in TaskIds : run_task_acquire(id))
    /\ WF_vars(\E id \in TaskIds :
                   run_task_completes(id) \/ run_task_fails(id))

\* fair runs, with retention disabled: a sweep touches neither pc, nor the
\* semaphore, nor a Task object
FairSpec == InitDisabled /\ [][Next]_vars /\ Fairness


\* ========================================================================
\* Properties

InStore == Range(tasks)
Created == 1..Len(obj)
SlotHolders == {id \in TaskIds : pc[id] = "working"}

\* the status changes the state machine allows
AllowedTransitions ==
    {<<"pending", "running">>, <<"running", "completed">>,
     <<"running", "failed">>, <<"pending", "cancelled">>,
     <<"running", "cancelled">>}

\* C1: every change of a record's status is pending->running,
\* running->completed, running->failed, pending->cancelled or
\* running->cancelled; a completed, failed or cancelled status never changes.
C1_OnlyForwardTransitions ==
    [][\A id \in Created :
         obj'[id].status # obj[id].status =>
             <<obj[id].status, obj'[id].status>> \in AllowedTransitions]_vars

\* C2: the run_task invocations inside the semaphore block never number more
\* than max_concurrent_tasks.
C2_SlotCap == Cardinality(SlotHolders) <= MaxConcurrentTasks

\* every slot is held while another run_task waits for one
C2_Witness ==
    /\ Cardinality(SlotHolders) = MaxConcurrentTasks
    /\ sem_waiters # <<>>

\* C3: for every record of the store, completed_at is set exactly when the
\* status is completed, failed or cancelled.
C3_CompletedAtIffTerminal ==
    \A id \in InStore :
        (obj[id].completed_at # None) <=> (obj[id].status \in Terminal)

\* C4: cancel_task on a pending or running record leaves it cancelled with
\* completed_at set, in that step.
C4_CancelStampsCompletedAt ==
    [][\A id \in InStore :
         (cancel_task(id) /\ obj[id].status \in {"pending", "running"}) =>
             /\ obj'[id].status = "cancelled"
             /\ obj'[id].completed_at # None]_vars

\* C5: cancel_task on a record that is already terminal leaves its status,
\* result, error and completed_at as they were.
C5_CancelKeepsTerminal ==
    [][\A id \in InStore :
         (cancel_task(id) /\ obj[id].status \in Terminal) =>
             /\ obj'[id].status = obj[id].status
             /\ obj'[id].result = obj[id].result
             /\ obj'[id].error = obj[id].error
             /\ obj'[id].completed_at = obj[id].completed_at]_vars

\* C6: cancel_task and get_task with an id that is not in the store signal
\* not-found (ValueError, None) and change neither the store nor any record.
C6_UnknownIdNotFound ==
    [][\A id \in AnyIds : id \notin InStore =>
         /\ cancel_task(id) =>
                (ret' = "ValueError" /\ tasks' = tasks /\ obj' = obj)
         /\ get_task(id) =>
                (ret' = "None" /\ tasks' = tasks /\ obj' = obj)]_vars

\* cancel_task has raised while the store holds a record, has dropped
\* another, and an id was never created
C6_Witness ==
    /\ ret = "ValueError"
    /\ tasks # <<>>
    /\ Created \ InStore # {}
    /\ Len(obj) < MaxTasks

\* C7: a run_task whose work outlasts timeout_seconds ends with status failed
\* and an error set.
C7_TimeoutFails ==
    [][\A id \in Created :
         (pc[id] = "working" /\ pc'[id] = "done"
              /\ WorkSeconds > TimeoutSeconds) =>
             /\ obj'[id].status = "failed"
             /\ obj'[id].error # None]_vars

\* a step that runs cleanup_expired_tasks with retention enabled
Sweep == (cleanup_expired_tasks \/ create_task) /\ task_retention_hours > 0

\* the instant before which a record is older than the retention window
Cutoff == now - task_retention_hours

TerminalInStore == {id \in InStore : obj[id].status \in Terminal}
NonTerminalInStore == InStore \ TerminalInStore

\* the records of the store a sweep left there
Kept == Range(tasks') \cap InStore

\* C8: a terminal record whose terminal transition (the last write of its
\* status, stamped in updated_at) is more than H hours old at a sweep is not
\* in the store after it, cancelled records included.
C8_ExpiredTerminalAbsent ==
    [][Sweep =>
         \A id \in TerminalInStore :
             obj[id].updated_at < Cutoff => id \notin Kept]_vars

\* terminal records whose completed_at is newer than the retention window
Young == {id \in TerminalInStore : \E c \in obj[id].completed_at : c > Cutoff}

\* the records the expiry step of a sweep does not delete
Unexpired ==
    {id \in InStore :
        ~(id \in TerminalInStore /\ \E c \in obj[id].completed_at : c < Cutoff)}

\* C9 as claimed: a terminal record whose completed_at is newer than H hours
\* at a sweep is in the store after it.
C9_YoungTerminalKept ==
    [][Sweep => \A id \in Young : id \in Kept]_vars

\* C9 as amended: a terminal record whose completed_at is newer than H hours
\* at a sweep is in the store after it, provided the records left by the
\* expiry step number at most max_tasks_count.
C9_YoungTerminalKeptUnderCap ==
    [][(Sweep /\ Cardinality(Unexpired) <= MaxTasksCount) =>
         \A id \in Young : id \in Kept]_vars

\* a sweep has dropped an expired record and the store holds a terminal
\* record completed within the window
C9_Witness ==
    /\ \E e \in Created \ InStore :
           /\ obj[e].status \in Terminal
           /\ \E c \in obj[e].completed_at : c < Cutoff
    /\ Young # {}

\* b was created after a (ids follow the order of insertion)
Newer(b, a) ==
    \/ obj[b].created_at > obj[a].created_at
    \/ obj[b].created_at = obj[a].created_at /\ b > a

\* the n most recently created of the records S
MostRecent(S, n) == {a \in S : Cardinality({b \in S : Newer(b, a)}) < n}

\* more than max_tasks_count terminal records, none of them expired
OverCap ==
    /\ Unexpired = InStore
    /\ Cardinality(TerminalInStore) > MaxTasksCount

\* C10 as claimed: after a sweep over more than M unexpired terminal records,
\* the M most recently created of them remain, with every non-terminal one.
C10_KeepsMNewestTerminal ==
    [][(Sweep /\ OverCap) =>
         Kept = NonTerminalInStore
                    \cup MostRecent(TerminalInStore, MaxTasksCount)]_vars

\* the terminal records a full store has room for
Room ==
    IF MaxTasksCount > Cardinality(NonTerminalInStore)
    THEN MaxTasksCount - Cardinality(NonTerminalInStore)
    ELSE 0

\* C10 as amended: after such a sweep the max(0, M - N) most recently created
\* terminal records remain, N being the number of non-terminal records, with
\* every non-terminal record.
C10_KeepsNewestTerminalInRoom ==
    [][(Sweep /\ OverCap) =>
         Kept = NonTerminalInStore
                    \cup MostRecent(TerminalInStore, Room)]_vars

\* the capacity trim has dropped an unexpired terminal record, older than
\* the terminal records the store still holds
C10_Witness ==
    /\ task_retention_hours > 0
    /\ TerminalInStore # {}
    /\ \E e \in Created \ InStore :
           /\ obj[e].status \in Terminal
           /\ \E c \in obj[e].completed_at : c >= Cutoff
           /\ \A id \in TerminalInStore : Newer(id, e)

\* a step that runs cleanup_expired_tasks, whatever the configuration
AnySweep == cleanup_expired_tasks \/ create_task

\* C11: every pending or running record of the store is still in the store
\* after a sweep (timer, create_task, shutdown), also when the non-terminal
\* records alone exceed max_tasks_count.
C11_SweepKeepsNonTerminal ==
    [][AnySweep => NonTerminalInStore \subseteq Range(tasks')]_vars

\* a sweep has dropped a record and left more than max_tasks_count
\* non-terminal records in the store
C11_Witness ==
    /\ Cardinality(NonTerminalInStore) > MaxTasksCount
    /\ \E e \in Created \ InStore : obj[e].status \in Terminal

\* C12: with task_retention_hours <= 0 cleanup_expired_tasks returns 0 and
\* leaves the store as it was: no record goes by expiry, none by the
\* capacity trim.
C12_DisabledSweepIsNoOp ==
    /\ [](task_retention_hours <= 0 => CleanedCount(tasks) = 0)
    /\ [][task_retention_hours <= 0 =>
            /\ cleanup_expired_tasks => tasks' = tasks
            /\ create_task => Kept = InStore]_vars

\* the sweep of the create_task of record n met more than max_tasks_count
\* terminal records, each completed more than RetentionHours before, and
\* all of them are still in the store
C12_Witness ==
    /\ task_retention_hours <= 0
    /\ \E n \in InStore :
           Cardinality({id \in TerminalInStore :
               /\ id < n
               /\ \E c \in obj[id].completed_at :
                      c < obj[n].created_at - RetentionHours})
               > MaxTasksCount

\* C17: under fair scheduling, with work that always ends, every run_task
\* that waits for a slot gets one, and every run_task that has started ends
\* with its slot released and its record terminal with completed_at set.
C17_NoStarvation ==
    \A id \in TaskIds :
        /\ (pc[id] = "waiting") ~> (pc[id] = "working")
        /\ (pc[id] \in {"waiting", "working"}) ~>
               (/\ pc[id] = "done"
                /\ obj[id].status \in Terminal
                /\ obj[id].completed_at # None)

\* every slot is held, a run_task waits, and an earlier run_task has ended
C17_Witness ==
    /\ sem_waiters # <<>>
    /\ Cardinality(SlotHolders) = MaxConcurrentTasks
    /\ \E id \in Created :
           /\ pc[id] = "done"
           /\ obj[id].completed_at # None

\* the run_task invocations that ended in completed, and in failed: the
\* result such an end writes stays in the Task object
EndedCompleted ==
    {id \in Created : pc[id] = "done"
                      /\ \E r \in obj[id].result : r[1] = "output"}
EndedFailed ==
    {id \in Created : pc[id] = "done"
                      /\ \E r \in obj[id].result : r[1] = "error"}

\* C13: get_metrics reports completed_tasks and failed_tasks equal to the
\* numbers of run_task invocations that ended in completed and in failed;
\* neither counter decreases, and neither changes in a sweep or a cancel_task.
C13_MetricsCountOutcomes ==
    /\ [](/\ get_metrics.completed_tasks = Cardinality(EndedCompleted)
          /\ get_metrics.failed_tasks = Cardinality(EndedFailed))
    /\ [][/\ get_metrics'.completed_tasks >= get_metrics.completed_tasks
          /\ get_metrics'.failed_tasks >= get_metrics.failed_tasks
          /\ (AnySweep \/ \E id \in AnyIds : cancel_task(id)) =>
                 /\ get_metrics'.completed_tasks = get_metrics.completed_tasks
                 /\ get_metrics'.failed_tasks = get_metrics.failed_tasks]_vars

\* a completed record was evicted and a failed one was cancelled, and both
\* are still counted
C13_Witness ==
    /\ get_metrics.completed_tasks >= 1
    /\ get_metrics.failed_tasks >= 1
    /\ \E id \in EndedCompleted : id \notin InStore
    /\ \E id \in EndedFailed : obj[id].status = "cancelled"

\* C14: create_task is never blocked by the semaphore: it is enabled in
\* every state (while the ids of the model last), also with every slot held
\* and tasks waiting, and the record it adds to the store is pending, with
\* started_at, completed_at, result and error unset and progress 0.
C14_CreateNeverBlocked ==
    /\ [](Len(obj) < MaxTasks => ENABLED create_task)
    /\ [][create_task =>
            LET id == Len(obj') IN
              /\ id = Len(obj) + 1
              /\ id \in Range(tasks')
              /\ obj'[id].status = "pending"
              /\ obj'[id].started_at = None
              /\ obj'[id].completed_at = None
              /\ obj'[id].result = None
              /\ obj'[id].error = None
              /\ obj'[id].progress = 0
              /\ sem_value' = sem_value
              /\ sem_waiters' = sem_waiters]_vars

\* a record was created while every slot was held and a run_task waited
C14_Witness ==
    /\ Cardinality(SlotHolders) = MaxConcurrentTasks
    /\ sem_waiters # <<>>
    /\ \E id \in InStore :
           /\ \A w \in SlotHolders \cup Range(sem_waiters) :
                  \A st \in obj[w].started_at : obj[id].created_at > st
           /\ obj[id].status = "pending"
           /\ pc[id] = "created"

\* C15: when the work raises while the task holds a slot, run_task ends with
\* status failed, a non-empty error description, an error-shaped result that
\* carries the same description, completed_at set, the failed counter one
\* higher and the slot released.
C15_WorkErrorCaptured ==
    [][\A id \in TaskIds :
         run_task_fails(id) =>
             /\ pc'[id] = "done"
             /\ obj'[id].status = "failed"
             /\ obj'[id].error # None
             /\ "" \notin obj'[id].error
             /\ obj'[id].result = {<<"error", m>> : m \in obj'[id].error}
             /\ obj'[id].completed_at # None
             /\ get_metrics'.failed_tasks = get_metrics.failed_tasks + 1
             /\ id \in SlotHolders
             /\ id \notin SlotHolders']_vars

\* C16: started_at is set exactly for the records whose run_task has begun;
\* a record cancelled while pending (cancelled, never started) keeps
\* started_at unset, and a started_at that is set is never cleared or
\* rewritten.
C16_StartedAtIffStarted ==
    /\ [](\A id \in Created :
              obj[id].started_at # None <=> pc[id] # "created")
    /\ [][\A id \in Created :
            /\ (obj[id].status = "cancelled" /\ obj[id].started_at = None) =>
                   obj'[id].started_at = None
            /\ obj[id].started_at # None =>
                   obj'[id].started_at = obj[id].started_at]_vars

\* C18: on every exit path of run_task, the cancellation of its asyncio task
\* while it waits for a slot or runs the work included, the slot it held is
\* released and the record has completed_at set and a terminal status.
C18_EveryExitFinalizes ==
    [][\A id \in TaskIds :
         (pc[id] \in {"waiting", "working"}
              /\ pc'[id] \in {"done", "aborted"}) =>
             /\ id \notin SlotHolders'
             /\ id \in SlotHolders => sem_value' = sem_value + 1
             /\ obj'[id].completed_at # None
             /\ obj'[id].status \in Terminal]_vars

Min(a, b) == IF a < b THEN a ELSE b

\* what the capacity trim of a sweep has to leave: kept are the records of
\* the store after the sweep
TrimLeaves(kept) ==
    LET size == Cardinality(Unexpired)
        terminal == Unexpired \cap TerminalInStore
        deleted == Unexpired \ kept
    IN /\ kept \subseteq Unexpired
       /\ Cardinality(deleted) =
              IF size > MaxTasksCount
              THEN Min(size - MaxTasksCount, Cardinality(terminal))
              ELSE 0
       /\ deleted \subseteq terminal
       /\ \A d \in deleted : \A k \in kept \cap terminal :
              obj[d].created_at <= obj[k].created_at
       /\ \/ Cardinality(kept) <= MaxTasksCount
          \/ kept \cap terminal = {}

\* C19: with retention enabled, the capacity trim of a sweep deletes exactly
\* min(size - max_tasks_count, number of terminal records) records when
\* size > max_tasks_count and none otherwise; every deleted record is terminal
\* and was created no later than every surviving terminal record; after the
\* sweep the store size is at most max_tasks_count or no terminal record
\* remains. Stated for the sweep of every state, and for every sweep step.
C19_TrimOldestTerminal ==
    /\ [](task_retention_hours > 0 => TrimLeaves(Range(Cleaned(tasks))))
    /\ [][Sweep => TrimLeaves(Kept)]_vars

\* the trim has deleted an unexpired terminal record created before a
\* terminal record that the store still holds
C19_Witness ==
    /\ task_retention_hours > 0
    /\ \E e \in Created \ InStore :
           /\ obj[e].status \in Terminal
           /\ \E c \in obj[e].completed_at : c >= Cutoff
           /\ \E k \in TerminalInStore :
                  obj[k].created_at > obj[e].created_at

\* C20: status becomes running and started_at is set before run_task holds a
\* slot: the step that begins run_task writes both, whether it gets the slot
\* at once or queues for it; the step that takes the slot later writes
\* nothing to the record, which was started before; and a waiting run_task has
\* a started record whose status only cancel_task may have changed. The cap
\* is on the slot holders, not on running_tasks of get_metrics.
C20_RunningBeforeSlot ==
    /\ [](\A id \in Created :
              pc[id] = "waiting" =>
                  /\ obj[id].status \in {"running", "cancelled"}
                  /\ obj[id].started_at # None)
    /\ [](Cardinality(SlotHolders) <= MaxConcurrentTasks)
    /\ [][\A id \in TaskIds :
            /\ run_task_start(id) =>
                   /\ obj'[id].status = "running"
                   /\ obj'[id].started_at # None
            /\ run_task_acquire(id) =>
                   /\ obj' = obj
                   /\ obj[id].started_at # None
                   /\ id \notin SlotHolders
                   /\ id \in SlotHolders']_vars

\* more records are running, as get_metrics counts them, than there are
\* slots: one holds the slot and another waits for it
C20_Witness ==
    /\ get_metrics.running_tasks > MaxConcurrentTasks
    /\ \E id \in InStore :
           /\ pc[id] = "waiting"
           /\ obj[id].status = "running"
    /\ Cardinality(SlotHolders) = MaxConcurrentTasks

\* the records whose run_task is scheduled, waits for a slot or runs the work
Unfinished == {id \in Created : pc[id] \in {"created", "waiting", "working"}}

\* C21: eviction never removes a record whose run_task has not finished:
\* every record whose run_task is scheduled, waiting for a slot or running
\* the work is in the store, and run_task writes its outcome, and counts it,
\* only for a record that is in the store.
C21_UnfinishedInStore ==
    /\ [](Unfinished \subseteq InStore)
    /\ [][\A id \in TaskIds :
            (run_task_completes(id) \/ run_task_fails(id)) =>
                id \in InStore]_vars

=============================================================================
